---- MODULE Spec2Model ----
\* A model of whoauth2: the single-provider OAuth2 flow engine (ProviderHandler,
\* src/handler.go lines 1-279) and the multi-provider facade (ProviderGroup,
\* src/unnamed/part_000).  The session store (whsess), the OAuth2 client
\* library and the response helpers (whredir, wherr) are collaborators: the
\* model records every call made to them and lets each fallible call fail.
EXTENDS Integers, Sequences, FiniteSets, TLC

VARIABLES
    group,      \* the ProviderGroup serving the requests (NoGroup until constructed)
    ctor,       \* the arguments and the result of the last NewProviderGroup call
    store,      \* the session store: namespace -> session.Values as persisted
    now,        \* the wall clock oauth2.Token.Valid reads
    nstates,    \* how many values newState() has handed out
    req,        \* the request or API call handled last
    resp,       \* what it answered: a redirect, an error, or a returned value
    effects,    \* the collaborator calls it made, in order
    procs,      \* requests in flight, each at its own position in its handler
    flows       \* history: state value -> the login that persisted it, and
                \* whether a callback has completed it

vars == <<group, ctor, store, now, nstates, req, resp, effects, procs, flows>>

----------------------------------------------------------------------------
\* Bounds of the model

MaxLogins == 2      \* newState() is called at most this many times
MaxTime == 1        \* the clock runs from 0 to MaxTime
MaxProviders == 2   \* NewProviderGroup is tried on lists of at most this length

----------------------------------------------------------------------------
\* Values a session can hold.  session.Values is a map[interface{}]interface{}:
\* a value carries its dynamic type, and a key may be missing.

\* An expiry is a time, or Never (oauth2.Token's zero Expiry).
Never == [set |-> FALSE, at |-> 0]
At(t) == [set |-> TRUE, at |-> t]

Str(s) == [type |-> "string", v |-> s, expiry |-> Never]
Tok(access, exp) == [type |-> "token", v |-> access, expiry |-> exp]
Other == [type |-> "int", v |-> "7", expiry |-> Never]
Nil == [type |-> "nil", v |-> "", expiry |-> Never]

Keys == {"_state", "_redirect_to", "_token"}

Empty == [k \in {} |-> Nil]
Put(values, k, val) ==
    [x \in DOMAIN values \cup {k} |-> IF x = k THEN val ELSE values[x]]
Has(values, k) == k \in DOMAIN values
Get(values, k) == IF k \in DOMAIN values THEN values[k] ELSE Nil

\* oauth2.Token.Valid: non-nil, a non-empty access token, and not expired; a
\* zero Expiry never expires.
Valid(t, clock) ==
    /\ t.type = "token"
    /\ t.v # ""
    /\ ~(t.expiry.set /\ t.expiry.at < clock)

\* Responses and collaborator calls
Redirect(url) == [kind |-> "redirect", to |-> url]
Error(class, msg) == [kind |-> "error", class |-> class, err |-> msg]
NoResp == [kind |-> "none"]
Call(what, ns, ok) == [call |-> what, ns |-> ns, ok |-> ok]

BadRequest(msg) == Error("bad request", msg)
SessionError == Error("internal", "session store")
ExchangeError == Error("upstream", "exchange failed")

----------------------------------------------------------------------------
\* ProviderHandler (src/handler.go)

\* NewProviderHandler: empty default URLs become "/".
NewProviderHandler(provider, session_namespace, handler_base_url, urls) ==
    [provider |-> provider,
     session_namespace |-> session_namespace,
     handler_base_url |-> handler_base_url,
     urls |-> [DefaultLoginURL |-> IF urls.DefaultLoginURL = "" THEN "/"
                                   ELSE urls.DefaultLoginURL,
               DefaultLogoutURL |-> IF urls.DefaultLogoutURL = "" THEN "/"
                                    ELSE urls.DefaultLogoutURL],
     accessOffline |-> FALSE]

\* RequestOfflineTokens: from now on the handler asks for offline access.
RequestOfflineTokens(o) == [o EXCEPT !.accessOffline = TRUE]

\* strconv.ParseBool as login uses it: the accepted spellings, an error otherwise.
ParseBool(str) ==
    IF str \in {"1", "t", "T", "TRUE", "true", "True"}
    THEN [val |-> TRUE, err |-> FALSE]
    ELSE IF str \in {"0", "f", "F", "FALSE", "false", "False"}
    THEN [val |-> FALSE, err |-> FALSE]
    ELSE [val |-> FALSE, err |-> TRUE]

\* newState(): the n-th call returns a value no earlier call returned.
newState(n) == "s" \o ToString(n + 1)

\* Provider.Exchange on success: a credential of this provider for this code;
\* its Expiry is unset or a time not before the clock.
Exchange(provider, code, exp) == Tok(provider \o ":" \o code, exp)

\* Mutant: a stored token counts whether or not it has expired.
token_IgnoreExpiry(session, clock) ==
    LET val == Get(session, "_token")
    IN IF Has(session, "_token") /\ val.type = "token" THEN val ELSE Nil

\* token: the stored _token when it exists, is a *oauth2.Token and is Valid.
token(session, clock) ==
    LET val == Get(session, "_token")
        exists == Has(session, "_token")
        correct == val.type = "token"
    IN IF exists /\ correct /\ Valid(val, clock) THEN val ELSE Nil

\* Token: load the session, then token; a failed load is returned as the error.
Token(o, st, clock, loadOK) ==
    IF ~loadOK
    THEN [token |-> Nil, err |-> TRUE,
          effects |-> <<Call("Load", o.session_namespace, FALSE)>>]
    ELSE [token |-> token(st[o.session_namespace], clock), err |-> FALSE,
          effects |-> <<Call("Load", o.session_namespace, TRUE)>>]

\* LoggedIn: t != nil, and Token's error.
LoggedIn(o, st, clock, loadOK) ==
    LET t == Token(o, st, clock, loadOK)
    IN [loggedIn |-> t.token # Nil, err |-> t.err, effects |-> t.effects]

\* Mutant: logout removes the credential and leaves the rest of the namespace.
Logout_TokenOnly(o, st, loadOK, clearOK) ==
    LET ns == o.session_namespace
        kept == [k \in DOMAIN st[ns] \ {"_token"} |-> st[ns][k]]
    IN IF ~loadOK
       THEN [store |-> st, err |-> TRUE, effects |-> <<Call("Load", ns, FALSE)>>]
       ELSE IF ~clearOK
       THEN [store |-> st, err |-> TRUE,
             effects |-> <<Call("Load", ns, TRUE), Call("Clear", ns, FALSE)>>]
       ELSE [store |-> [st EXCEPT ![ns] = kept], err |-> FALSE,
             effects |-> <<Call("Load", ns, TRUE), Call("Clear", ns, TRUE)>>]

\* Logout: load the session and Clear it.  A successful Clear leaves the
\* namespace without any value; a failed one leaves the store as it was.
Logout(o, st, loadOK, clearOK) ==
    LET ns == o.session_namespace
    IN IF ~loadOK
       THEN [store |-> st, err |-> TRUE, effects |-> <<Call("Load", ns, FALSE)>>]
       ELSE IF ~clearOK
       THEN [store |-> st, err |-> TRUE,
             effects |-> <<Call("Load", ns, TRUE), Call("Clear", ns, FALSE)>>]
       ELSE [store |-> [st EXCEPT ![ns] = Empty], err |-> FALSE,
             effects |-> <<Call("Load", ns, TRUE), Call("Clear", ns, TRUE)>>]

\* Mutant: any stored _token short-circuits, valid or not.
shortCircuit_AnyToken(force_prompt, session, clock) ==
    ~force_prompt /\ Has(session, "_token")

\* login's short-circuit test (line 157).
shortCircuit(force_prompt, session, clock) ==
    ~force_prompt /\ token(session, clock) # Nil

\* Mutant: login redirects to the provider whether or not the save succeeded.
login_IgnoreSaveError(o, st, clock, n, form, loadOK, saveOK) ==
    LET ns == o.session_namespace
        session == st[ns]
        redirect_to == IF form.redirect_to = "" THEN o.urls.DefaultLoginURL
                       ELSE form.redirect_to
        parsed == ParseBool(form.force_prompt)
        force_prompt == IF parsed.err THEN FALSE ELSE parsed.val
        state == newState(n)
        values == Put(Put(session, "_state", Str(state)),
                      "_redirect_to", Str(redirect_to))
        accessType == IF o.accessOffline THEN "offline" ELSE "online"
    IN IF ~loadOK
       THEN [store |-> st, nstates |-> n, resp |-> SessionError,
             effects |-> <<Call("Load", ns, FALSE)>>]
       ELSE IF shortCircuit(force_prompt, session, clock)
       THEN [store |-> st, nstates |-> n, resp |-> Redirect(redirect_to),
             effects |-> <<Call("Load", ns, TRUE)>>]
       ELSE [store |-> IF saveOK THEN [st EXCEPT ![ns] = values] ELSE st,
             nstates |-> n + 1,
             resp |-> [kind |-> "authorize", provider |-> o.provider,
                       state |-> state, accessType |-> accessType,
                       approvalForce |-> force_prompt],
             effects |-> <<Call("Load", ns, TRUE), Call("newState", ns, TRUE),
                           Call("Save", ns, saveOK)>>]

\* Mutant: a login that goes to the provider drops the stored credential.
login_DropToken(o, st, clock, n, form, loadOK, saveOK) ==
    LET ns == o.session_namespace
        session == st[ns]
        redirect_to == IF form.redirect_to = "" THEN o.urls.DefaultLoginURL
                       ELSE form.redirect_to
        parsed == ParseBool(form.force_prompt)
        force_prompt == IF parsed.err THEN FALSE ELSE parsed.val
        state == newState(n)
        kept == [k \in DOMAIN session \ {"_token"} |-> session[k]]
        values == Put(Put(kept, "_state", Str(state)),
                      "_redirect_to", Str(redirect_to))
        accessType == IF o.accessOffline THEN "offline" ELSE "online"
    IN IF ~loadOK
       THEN [store |-> st, nstates |-> n, resp |-> SessionError,
             effects |-> <<Call("Load", ns, FALSE)>>]
       ELSE IF shortCircuit(force_prompt, session, clock)
       THEN [store |-> st, nstates |-> n, resp |-> Redirect(redirect_to),
             effects |-> <<Call("Load", ns, TRUE)>>]
       ELSE IF ~saveOK
       THEN [store |-> st, nstates |-> n + 1, resp |-> SessionError,
             effects |-> <<Call("Load", ns, TRUE), Call("newState", ns, TRUE),
                           Call("Save", ns, FALSE)>>]
       ELSE [store |-> [st EXCEPT ![ns] = values], nstates |-> n + 1,
             resp |-> [kind |-> "authorize", provider |-> o.provider,
                       state |-> state, accessType |-> accessType,
                       approvalForce |-> force_prompt],
             effects |-> <<Call("Load", ns, TRUE), Call("newState", ns, TRUE),
                           Call("Save", ns, TRUE)>>]

\* login: the /login handler.  form holds the request's redirect_to and
\* force_prompt parameters; n is the number of states handed out so far.
login(o, st, clock, n, form, loadOK, saveOK) ==
    LET ns == o.session_namespace
        session == st[ns]
        redirect_to == IF form.redirect_to = "" THEN o.urls.DefaultLoginURL
                       ELSE form.redirect_to
        parsed == ParseBool(form.force_prompt)
        force_prompt == IF parsed.err THEN FALSE ELSE parsed.val
        state == newState(n)
        values == Put(Put(session, "_state", Str(state)),
                      "_redirect_to", Str(redirect_to))
        accessType == IF o.accessOffline THEN "offline" ELSE "online"
    IN IF ~loadOK
       THEN [store |-> st, nstates |-> n, resp |-> SessionError,
             effects |-> <<Call("Load", ns, FALSE)>>]
       ELSE IF shortCircuit(force_prompt, session, clock)
       THEN [store |-> st, nstates |-> n, resp |-> Redirect(redirect_to),
             effects |-> <<Call("Load", ns, TRUE)>>]
       ELSE IF ~saveOK
       THEN [store |-> st, nstates |-> n + 1, resp |-> SessionError,
             effects |-> <<Call("Load", ns, TRUE), Call("newState", ns, TRUE),
                           Call("Save", ns, FALSE)>>]
       ELSE [store |-> [st EXCEPT ![ns] = values], nstates |-> n + 1,
             resp |-> [kind |-> "authorize", provider |-> o.provider,
                       state |-> state, accessType |-> accessType,
                       approvalForce |-> force_prompt],
             effects |-> <<Call("Load", ns, TRUE), Call("newState", ns, TRUE),
                           Call("Save", ns, TRUE)>>]

\* Mutant: _redirect_to is checked before _state.
cbCheck_RedirectFirst(session, formState) ==
    LET st_val == Get(session, "_state")
        rt_val == Get(session, "_redirect_to")
    IN IF ~Has(session, "_redirect_to") \/ rt_val.type # "string"
       THEN "invalid redirect_to"
       ELSE IF ~Has(session, "_state") \/ st_val.type # "string"
       THEN "invalid session storage state"
       ELSE IF st_val.v # formState
       THEN "csrf detected"
       ELSE ""

\* Mutant: the state parameter is not compared with the stored _state.
cbCheck_NoCsrf(session, formState) ==
    IF ~Has(session, "_state") \/ Get(session, "_state").type # "string"
    THEN "invalid session storage state"
    ELSE IF ~Has(session, "_redirect_to")
            \/ Get(session, "_redirect_to").type # "string"
    THEN "invalid redirect_to"
    ELSE ""

\* cb's three checks of the loaded session against the request (lines
\* 192-211), in the code's order: "" when all pass, else the error's message.
cbCheck(session, formState) ==
    LET st_val == Get(session, "_state")
        rt_val == Get(session, "_redirect_to")
    IN IF ~Has(session, "_state") \/ st_val.type # "string"
       THEN "invalid session storage state"
       ELSE IF ~Has(session, "_redirect_to") \/ rt_val.type # "string"
       THEN "invalid redirect_to"
       ELSE IF st_val.v # formState
       THEN "csrf detected"
       ELSE ""

\* Mutant: a completed callback redirects to the default login URL.
cb_DefaultRedirect(o, st, form, exp, loadOK, exchangeOK, saveOK) ==
    LET ns == o.session_namespace
        session == st[ns]
        failed == cbCheck(session, form.state)
        accessType == IF o.accessOffline THEN "offline" ELSE "online"
        values == Put(session, "_token", Exchange(o.provider, form.code, exp))
        exch(ok) == [call |-> "Exchange", ns |-> ns, ok |-> ok,
                     code |-> form.code, accessType |-> accessType]
    IN IF ~loadOK
       THEN [store |-> st, resp |-> SessionError,
             effects |-> <<Call("Load", ns, FALSE)>>]
       ELSE IF failed # ""
       THEN [store |-> st, resp |-> BadRequest(failed),
             effects |-> <<Call("Load", ns, TRUE)>>]
       ELSE IF ~exchangeOK
       THEN [store |-> st, resp |-> ExchangeError,
             effects |-> <<Call("Load", ns, TRUE), exch(FALSE)>>]
       ELSE IF ~saveOK
       THEN [store |-> st, resp |-> SessionError,
             effects |-> <<Call("Load", ns, TRUE), exch(TRUE),
                           Call("Save", ns, FALSE)>>]
       ELSE [store |-> [st EXCEPT ![ns] = values],
             resp |-> Redirect(o.urls.DefaultLoginURL),
             effects |-> <<Call("Load", ns, TRUE), exch(TRUE),
                           Call("Save", ns, TRUE)>>]

\* Mutant: a completed callback removes _state and _redirect_to.
cb_ConsumeState(o, st, form, exp, loadOK, exchangeOK, saveOK) ==
    LET ns == o.session_namespace
        session == st[ns]
        failed == cbCheck(session, form.state)
        accessType == IF o.accessOffline THEN "offline" ELSE "online"
        kept == [k \in DOMAIN session \ {"_state", "_redirect_to"} |-> session[k]]
        values == Put(kept, "_token", Exchange(o.provider, form.code, exp))
        exch(ok) == [call |-> "Exchange", ns |-> ns, ok |-> ok,
                     code |-> form.code, accessType |-> accessType]
    IN IF ~loadOK
       THEN [store |-> st, resp |-> SessionError,
             effects |-> <<Call("Load", ns, FALSE)>>]
       ELSE IF failed # ""
       THEN [store |-> st, resp |-> BadRequest(failed),
             effects |-> <<Call("Load", ns, TRUE)>>]
       ELSE IF ~exchangeOK
       THEN [store |-> st, resp |-> ExchangeError,
             effects |-> <<Call("Load", ns, TRUE), exch(FALSE)>>]
       ELSE IF ~saveOK
       THEN [store |-> st, resp |-> SessionError,
             effects |-> <<Call("Load", ns, TRUE), exch(TRUE),
                           Call("Save", ns, FALSE)>>]
       ELSE [store |-> [st EXCEPT ![ns] = values],
             resp |-> Redirect(Get(session, "_redirect_to").v),
             effects |-> <<Call("Load", ns, TRUE), exch(TRUE),
                           Call("Save", ns, TRUE)>>]

\* Mutant: a failed exchange is not looked at: its nil token is stored and
\* the callback goes on to save and redirect.
cb_IgnoreExchangeError(o, st, form, exp, loadOK, exchangeOK, saveOK) ==
    LET ns == o.session_namespace
        session == st[ns]
        failed == cbCheck(session, form.state)
        accessType == IF o.accessOffline THEN "offline" ELSE "online"
        tok == IF exchangeOK THEN Exchange(o.provider, form.code, exp) ELSE Nil
        values == Put(session, "_token", tok)
        exch(ok) == [call |-> "Exchange", ns |-> ns, ok |-> ok,
                     code |-> form.code, accessType |-> accessType]
    IN IF ~loadOK
       THEN [store |-> st, resp |-> SessionError,
             effects |-> <<Call("Load", ns, FALSE)>>]
       ELSE IF failed # ""
       THEN [store |-> st, resp |-> BadRequest(failed),
             effects |-> <<Call("Load", ns, TRUE)>>]
       ELSE IF ~saveOK
       THEN [store |-> st, resp |-> SessionError,
             effects |-> <<Call("Load", ns, TRUE), exch(exchangeOK),
                           Call("Save", ns, FALSE)>>]
       ELSE [store |-> [st EXCEPT ![ns] = values],
             resp |-> Redirect(Get(session, "_redirect_to").v),
             effects |-> <<Call("Load", ns, TRUE), exch(exchangeOK),
                           Call("Save", ns, TRUE)>>]

\* Mutant: the exchange always asks for online access.
cb_OnlineExchange(o, st, form, exp, loadOK, exchangeOK, saveOK) ==
    LET ns == o.session_namespace
        session == st[ns]
        failed == cbCheck(session, form.state)
        values == Put(session, "_token", Exchange(o.provider, form.code, exp))
        exch(ok) == [call |-> "Exchange", ns |-> ns, ok |-> ok,
                     code |-> form.code, accessType |-> "online"]
    IN IF ~loadOK
       THEN [store |-> st, resp |-> SessionError,
             effects |-> <<Call("Load", ns, FALSE)>>]
       ELSE IF failed # ""
       THEN [store |-> st, resp |-> BadRequest(failed),
             effects |-> <<Call("Load", ns, TRUE)>>]
       ELSE IF ~exchangeOK
       THEN [store |-> st, resp |-> ExchangeError,
             effects |-> <<Call("Load", ns, TRUE), exch(FALSE)>>]
       ELSE IF ~saveOK
       THEN [store |-> st, resp |-> SessionError,
             effects |-> <<Call("Load", ns, TRUE), exch(TRUE),
                           Call("Save", ns, FALSE)>>]
       ELSE [store |-> [st EXCEPT ![ns] = values],
             resp |-> Redirect(Get(session, "_redirect_to").v),
             effects |-> <<Call("Load", ns, TRUE), exch(TRUE),
                           Call("Save", ns, TRUE)>>]

\* cb: the /_cb handler.  form holds the request's state and code.
cb(o, st, form, exp, loadOK, exchangeOK, saveOK) ==
    LET ns == o.session_namespace
        session == st[ns]
        failed == cbCheck(session, form.state)
        redirect_to == Get(session, "_redirect_to").v
        accessType == IF o.accessOffline THEN "offline" ELSE "online"
        tok == Exchange(o.provider, form.code, exp)
        values == Put(session, "_token", tok)
        exch(ok) == [call |-> "Exchange", ns |-> ns, ok |-> ok,
                     code |-> form.code, accessType |-> accessType]
    IN IF ~loadOK
       THEN [store |-> st, resp |-> SessionError,
             effects |-> <<Call("Load", ns, FALSE)>>]
       ELSE IF failed # ""
       THEN [store |-> st, resp |-> BadRequest(failed),
             effects |-> <<Call("Load", ns, TRUE)>>]
       ELSE IF ~exchangeOK
       THEN [store |-> st, resp |-> ExchangeError,
             effects |-> <<Call("Load", ns, TRUE), exch(FALSE)>>]
       ELSE IF ~saveOK
       THEN [store |-> st, resp |-> SessionError,
             effects |-> <<Call("Load", ns, TRUE), exch(TRUE),
                           Call("Save", ns, FALSE)>>]
       ELSE [store |-> [st EXCEPT ![ns] = values],
             resp |-> Redirect(redirect_to),
             effects |-> <<Call("Load", ns, TRUE), exch(TRUE),
                           Call("Save", ns, TRUE)>>]

\* logout: the /logout handler.
logout(o, st, form, loadOK, clearOK) ==
    LET out == Logout(o, st, loadOK, clearOK)
        redirect_to == IF form.redirect_to = "" THEN o.urls.DefaultLogoutURL
                       ELSE form.redirect_to
    IN [store |-> out.store,
        resp |-> IF out.err THEN SessionError ELSE Redirect(redirect_to),
        effects |-> out.effects]

\* strings.TrimRight(s, "/") and fmt.Sprintf on strings given as sequences of
\* one-character strings.
RECURSIVE TrimRight(_)
TrimRight(chars) ==
    IF chars # <<>> /\ chars[Len(chars)] = "/"
    THEN TrimRight(SubSeq(chars, 1, Len(chars) - 1))
    ELSE chars

RECURSIVE Join(_)
Join(chars) == IF chars = <<>> THEN "" ELSE Head(chars) \o Join(Tail(chars))

\* url.QueryEscape on a string given as a sequence of one-character strings:
\* letters and digits stay, a space becomes "+", the other characters used
\* here are percent-encoded.
RECURSIVE QueryEscape(_)
QueryEscape(chars) ==
    IF chars = <<>> THEN <<>>
    ELSE LET c == Head(chars)
             e == CASE c = "/" -> "%2F"
                    [] c = "?" -> "%3F"
                    [] c = "=" -> "%3D"
                    [] c = "&" -> "%26"
                    [] c = " " -> "+"
                    [] OTHER -> c
         IN <<e>> \o QueryEscape(Tail(chars))

\* fmt.Sprint of a bool.
Sprint(b) == IF b THEN "true" ELSE "false"

\* LoginURL: url.Values.Encode writes the keys in sorted order.
LoginURL(o, redirect_to, force_prompt) ==
    o.handler_base_url \o "/login?" \o "force_prompt=" \o Sprint(force_prompt)
        \o "&redirect_to=" \o Join(QueryEscape(redirect_to))

LogoutURL(o, redirect_to) ==
    o.handler_base_url \o "/logout?" \o "redirect_to="
        \o Join(QueryEscape(redirect_to))

\* Mutant: the middleware lets a request through whenever _token exists.
loginRequired_AnyToken(o, st, clock, requestURI, forcePrompt, loadOK) ==
    LET t == Token(o, st, clock, loadOK)
    IN [resp |-> IF t.err THEN SessionError
                 ELSE IF ~Has(st[o.session_namespace], "_token")
                 THEN Redirect(LoginURL(o, requestURI, forcePrompt))
                 ELSE [kind |-> "next"],
        effects |-> t.effects]

\* loginRequired: the middleware's handler.  A failed Token is handled as an
\* error, a nil token redirects to LoginURL(r.RequestURI, forcePrompt), and
\* otherwise the wrapped handler serves the request.
loginRequired(o, st, clock, requestURI, forcePrompt, loadOK) ==
    LET t == Token(o, st, clock, loadOK)
    IN [resp |-> IF t.err THEN SessionError
                 ELSE IF t.token = Nil
                 THEN Redirect(LoginURL(o, requestURI, forcePrompt))
                 ELSE [kind |-> "next"],
        effects |-> t.effects]

LoginRequired(o, st, clock, requestURI, loadOK) ==
    loginRequired(o, st, clock, requestURI, FALSE, loadOK)

LoginRequiredForcePrompt(o, st, clock, requestURI, loadOK) ==
    loginRequired(o, st, clock, requestURI, TRUE, loadOK)

----------------------------------------------------------------------------
\* ProviderGroup (src/unnamed/part_000)

NoGroup == [handlers |-> Empty, constructed |-> FALSE]

\* Mutant: every handler gets the group's namespace, without its name.
RECURSIVE NewProviderGroupLoop_SharedNamespace(_, _, _, _, _, _)
NewProviderGroupLoop_SharedNamespace(session_namespace, base, urls, providers, i, handlers) ==
    IF i > Len(providers)
    THEN [group |-> [handlers |-> handlers, constructed |-> TRUE,
                     urls |-> urls, group_base_url |-> base],
          err |-> ""]
    ELSE LET name == providers[i]
         IN IF name = ""
            THEN [group |-> [handlers |-> Empty, constructed |-> FALSE],
                  err |-> "empty provider name"]
            ELSE IF name \in DOMAIN handlers
            THEN [group |-> [handlers |-> Empty, constructed |-> FALSE],
                  err |-> "two providers given with name"]
            ELSE NewProviderGroupLoop_SharedNamespace(session_namespace, base,
                     urls, providers, i + 1,
                     Put(handlers, name,
                         NewProviderHandler(name, session_namespace,
                             base \o "/" \o name, urls)))

\* Mutant: a name that is already registered replaces its handler.
RECURSIVE NewProviderGroupLoop_NoDupCheck(_, _, _, _, _, _)
NewProviderGroupLoop_NoDupCheck(session_namespace, base, urls, providers, i, handlers) ==
    IF i > Len(providers)
    THEN [group |-> [handlers |-> handlers, constructed |-> TRUE,
                     urls |-> urls, group_base_url |-> base],
          err |-> ""]
    ELSE LET name == providers[i]
         IN IF name = ""
            THEN [group |-> [handlers |-> Empty, constructed |-> FALSE],
                  err |-> "empty provider name"]
            ELSE NewProviderGroupLoop_NoDupCheck(session_namespace, base, urls,
                     providers, i + 1,
                     Put(handlers, name,
                         NewProviderHandler(name,
                             session_namespace \o "-" \o name,
                             base \o "/" \o name, urls)))

\* The loop of NewProviderGroup over providers[i..]: an empty or an already
\* registered name returns an error and no group.
RECURSIVE NewProviderGroupLoop(_, _, _, _, _, _)
NewProviderGroupLoop(session_namespace, base, urls, providers, i, handlers) ==
    IF i > Len(providers)
    THEN [group |-> [handlers |-> handlers, constructed |-> TRUE,
                     urls |-> urls, group_base_url |-> base],
          err |-> ""]
    ELSE LET name == providers[i]
         IN IF name = ""
            THEN [group |-> NoGroup, err |-> "empty provider name"]
            ELSE IF name \in DOMAIN handlers
            THEN [group |-> NoGroup, err |-> "two providers given with name"]
            ELSE NewProviderGroupLoop(session_namespace, base, urls, providers,
                     i + 1,
                     Put(handlers, name,
                         NewProviderHandler(name,
                             session_namespace \o "-" \o name,
                             base \o "/" \o name, urls)))

NewProviderGroup(session_namespace, group_base_url, urls, providers) ==
    NewProviderGroupLoop(session_namespace, Join(TrimRight(group_base_url)),
                         urls, providers, 1, Empty)

\* Handler: the named handler, and whether the name is configured.
Handler(g, provider_name) ==
    [rv |-> Get(g.handlers, provider_name),
     exists |-> provider_name \in DOMAIN g.handlers]

\* Mutant: Tokens returns at the first failed lookup.
RECURSIVE TokensLoop_StopAtError(_, _, _, _, _, _, _, _)
TokensLoop_StopAtError(g, st, clock, order, i, loadFails, rv, acc) ==
    IF i > Len(order)
    THEN [rv |-> rv, errs |-> acc.errs, effects |-> acc.effects]
    ELSE LET name == order[i]
             t == Token(g.handlers[name], st, clock, name \notin loadFails)
         IN IF t.err
            THEN [rv |-> rv, errs |-> Append(acc.errs, name),
                  effects |-> acc.effects \o t.effects]
            ELSE TokensLoop_StopAtError(g, st, clock, order, i + 1, loadFails,
                     IF t.token # Nil THEN Put(rv, name, t.token) ELSE rv,
                     [errs |-> acc.errs, effects |-> acc.effects \o t.effects])

\* Tokens: every handler's Token, in the order the map yields them; failed
\* lookups are added to the error group, valid tokens to the result.
RECURSIVE TokensLoop(_, _, _, _, _, _, _, _)
TokensLoop(g, st, clock, order, i, loadFails, rv, acc) ==
    IF i > Len(order)
    THEN [rv |-> rv, errs |-> acc.errs, effects |-> acc.effects]
    ELSE LET name == order[i]
             t == Token(g.handlers[name], st, clock, name \notin loadFails)
         IN TokensLoop(g, st, clock, order, i + 1, loadFails,
                IF ~t.err /\ t.token # Nil THEN Put(rv, name, t.token) ELSE rv,
                [errs |-> IF t.err THEN Append(acc.errs, name) ELSE acc.errs,
                 effects |-> acc.effects \o t.effects])

Tokens(g, st, clock, order, loadFails) ==
    TokensLoop(g, st, clock, order, 1, loadFails, Empty,
               [errs |-> <<>>, effects |-> <<>>])

\* (*ProviderGroup).LoggedIn: len(tokens) > 0, and Tokens' error.
GroupLoggedIn(g, st, clock, order, loadFails) ==
    LET t == Tokens(g, st, clock, order, loadFails)
    IN [loggedIn |-> DOMAIN t.rv # {}, errs |-> t.errs, effects |-> t.effects]

\* Mutant: LogoutAll logs out of one handler only.
LogoutAllLoop_FirstOnly(g, st, order, i, loadFails, clearFails, acc) ==
    IF i > Len(order)
    THEN [store |-> st, errs |-> acc.errs, effects |-> acc.effects]
    ELSE LET name == order[i]
             out == Logout(g.handlers[name], st, name \notin loadFails,
                           name \notin clearFails)
         IN [store |-> out.store,
             errs |-> IF out.err THEN Append(acc.errs, name) ELSE acc.errs,
             effects |-> acc.effects \o out.effects]

\* Mutant: LogoutAll returns at the first failed Logout.
RECURSIVE LogoutAllLoop_StopAtError(_, _, _, _, _, _, _)
LogoutAllLoop_StopAtError(g, st, order, i, loadFails, clearFails, acc) ==
    IF i > Len(order)
    THEN [store |-> st, errs |-> acc.errs, effects |-> acc.effects]
    ELSE LET name == order[i]
             out == Logout(g.handlers[name], st, name \notin loadFails,
                           name \notin clearFails)
         IN IF out.err
            THEN [store |-> out.store, errs |-> Append(acc.errs, name),
                  effects |-> acc.effects \o out.effects]
            ELSE LogoutAllLoop_StopAtError(g, out.store, order, i + 1,
                     loadFails, clearFails,
                     [errs |-> acc.errs, effects |-> acc.effects \o out.effects])

\* LogoutAll: every handler's Logout, in the order the map yields them; each
\* error is added to the error group.
RECURSIVE LogoutAllLoop(_, _, _, _, _, _, _)
LogoutAllLoop(g, st, order, i, loadFails, clearFails, acc) ==
    IF i > Len(order)
    THEN [store |-> st, errs |-> acc.errs, effects |-> acc.effects]
    ELSE LET name == order[i]
             out == Logout(g.handlers[name], st, name \notin loadFails,
                           name \notin clearFails)
         IN LogoutAllLoop(g, out.store, order, i + 1, loadFails, clearFails,
                [errs |-> IF out.err THEN Append(acc.errs, name) ELSE acc.errs,
                 effects |-> acc.effects \o out.effects])

LogoutAll(g, st, order, loadFails, clearFails) ==
    LogoutAllLoop(g, st, order, 1, loadFails, clearFails,
                  [errs |-> <<>>, effects |-> <<>>])

\* logoutAll: the /all/logout handler.
logoutAll(g, st, form, order, loadFails, clearFails) ==
    LET out == LogoutAll(g, st, order, loadFails, clearFails)
        redirect_to == IF form.redirect_to = "" THEN g.urls.DefaultLogoutURL
                       ELSE form.redirect_to
    IN [store |-> out.store,
        resp |-> IF out.errs # <<>>
                 THEN [kind |-> "error", class |-> "internal",
                       err |-> "session store", failed |-> out.errs]
                 ELSE Redirect(redirect_to),
        effects |-> out.effects]

\* (*ProviderGroup).LoginURL: g.handlers[provider_name] is nil for a name that
\* is not a key, and (*ProviderHandler).LoginURL reads o.handler_base_url
\* through it: a nil pointer dereference, which panics.
GroupLoginURL(g, provider_name, redirect_to, force_prompt) ==
    IF provider_name \in DOMAIN g.handlers
    THEN [kind |-> "return",
          url |-> LoginURL(g.handlers[provider_name], redirect_to, force_prompt)]
    ELSE [kind |-> "panic", url |-> ""]

\* (*ProviderGroup).LogoutURL: as LoginURL.
GroupLogoutURL(g, provider_name, redirect_to) ==
    IF provider_name \in DOMAIN g.handlers
    THEN [kind |-> "return",
          url |-> LogoutURL(g.handlers[provider_name], redirect_to)]
    ELSE [kind |-> "panic", url |-> ""]

\* Mutant: the gate looks at the mapping and lets the error go.
GroupLoginRequired_IgnoreError(g, st, clock, order, loadFails, requestURI, login_redirect) ==
    LET t == Tokens(g, st, clock, order, loadFails)
    IN [resp |-> IF DOMAIN t.rv = {}
                 THEN Redirect(login_redirect[requestURI])
                 ELSE [kind |-> "next"],
        effects |-> t.effects]

\* (*ProviderGroup).LoginRequired: the middleware's handler.  An error of
\* Tokens is handled first; then an empty mapping redirects to
\* login_redirect(r.RequestURI); otherwise the wrapped handler serves.
GroupLoginRequired(g, st, clock, order, loadFails, requestURI, login_redirect) ==
    LET t == Tokens(g, st, clock, order, loadFails)
    IN [resp |-> IF t.errs # <<>>
                 THEN [kind |-> "error", class |-> "internal",
                       err |-> "session store", failed |-> t.errs]
                 ELSE IF DOMAIN t.rv = {}
                 THEN Redirect(login_redirect[requestURI])
                 ELSE [kind |-> "next"],
        effects |-> t.effects]

----------------------------------------------------------------------------
\* The served system: a group, one user's session store, and requests handled
\* one at a time.  Every fallible collaborator call of a request may fail; a
\* request's `fail` input names the call that does.

DemoPrefix == "s"
DemoBase == <<"/", "g", "/">>
DemoURLs == [DefaultLoginURL |-> "", DefaultLogoutURL |-> "/bye"]

RedirectTos == {"", "/next"}
ForcePrompts == {"false", "true", "yes"}
Codes == {"c1"}
\* The state parameters a callback can carry: none, or a value handed out.
FormStates(n) == {""} \cup {newState(i) : i \in 0 .. n - 1}

Names(g) == DOMAIN g.handlers
Namespaces(g) == {g.handlers[n].session_namespace : n \in Names(g)}
NsOf(name) == group.handlers[name].session_namespace
Orders(g) ==
    {o \in [1 .. Cardinality(Names(g)) -> Names(g)] :
        \A i, j \in DOMAIN o : o[i] = o[j] => i = j}

NoProcs == [p \in {} |-> Nil]

InitWith(providers) ==
    /\ ctor = [session_namespace |-> DemoPrefix, group_base_url |-> DemoBase,
               providers |-> providers, called |-> TRUE,
               err |-> NewProviderGroup(DemoPrefix, DemoBase, DemoURLs,
                                        providers).err]
    /\ group = NewProviderGroup(DemoPrefix, DemoBase, DemoURLs, providers).group
    /\ store = [ns \in Namespaces(group) |-> Empty]
    /\ now = 0
    /\ nstates = 0
    /\ req = [op |-> "none"]
    /\ resp = NoResp
    /\ effects = <<>>
    /\ procs = NoProcs
    /\ flows = Empty

\* GET /<name>/login?redirect_to=..&force_prompt=..
Login(name, redirect_to, force_prompt, fail) ==
    LET form == [redirect_to |-> redirect_to, force_prompt |-> force_prompt]
    IN \E out \in {login(group.handlers[name], store, now, nstates, form,
                     fail # "load", fail # "save")} :
       /\ out.nstates <= MaxLogins
       /\ req' = [op |-> "login", name |-> name, form |-> form]
       /\ store' = out.store
       /\ nstates' = out.nstates
       /\ resp' = out.resp
       /\ effects' = out.effects
       /\ flows' = IF out.resp.kind = "authorize"
                  THEN Put(flows, out.resp.state,
                           [name |-> name, done |-> FALSE,
                            accessType |-> out.resp.accessType,
                            redirect_to |->
                                out.store[group.handlers[name].session_namespace]["_redirect_to"].v])
                  ELSE flows
       /\ UNCHANGED <<group, ctor, now, procs>>

\* GET /<name>/_cb?state=..&code=..
Cb(name, state, code, exp, fail) ==
    LET form == [state |-> state, code |-> code]
    IN \E out \in {cb(group.handlers[name], store, form, exp,
                  fail # "load", fail # "exchange", fail # "save")} :
       /\ req' = [op |-> "cb", name |-> name, form |-> form]
       /\ store' = out.store
       /\ resp' = out.resp
       /\ effects' = out.effects
       /\ flows' = IF out.resp.kind = "redirect" /\ state \in DOMAIN flows
                  THEN [flows EXCEPT ![state].done = TRUE]
                  ELSE flows
       /\ UNCHANGED <<group, ctor, now, nstates, procs>>

\* GET /<name>/logout?redirect_to=..
LogoutStep(name, redirect_to, fail) ==
    LET form == [redirect_to |-> redirect_to]
    IN \E out \in {logout(group.handlers[name], store, form,
                      fail # "load", fail # "clear")} :
       /\ req' = [op |-> "logout", name |-> name, form |-> form]
       /\ store' = out.store
       /\ resp' = out.resp
       /\ effects' = out.effects
       /\ UNCHANGED <<group, ctor, now, nstates, procs, flows>>

\* The application calls Token and LoggedIn on a handler.
TokenCall(name) ==
    \E loadOK \in BOOLEAN :
        \E t \in {Token(group.handlers[name], store, now, loadOK)},
           l \in {LoggedIn(group.handlers[name], store, now, loadOK)} :
           /\ req' = [op |-> "Token", name |-> name]
           /\ resp' = [kind |-> "return", token |-> t.token,
                       loggedIn |-> l.loggedIn, err |-> t.err]
           /\ effects' = t.effects
           /\ UNCHANGED <<group, ctor, store, now, nstates, procs, flows>>

\* The application calls Tokens and LoggedIn on the group.
TokensCall ==
    \E order \in Orders(group), loadFails \in SUBSET Names(group) :
        \E t \in {Tokens(group, store, now, order, loadFails)},
           l \in {GroupLoggedIn(group, store, now, order, loadFails)} :
           /\ req' = [op |-> "Tokens", loadFails |-> loadFails]
           /\ resp' = [kind |-> "return", tokens |-> t.rv,
                       loggedIn |-> l.loggedIn, errs |-> t.errs]
           /\ effects' = t.effects
           /\ UNCHANGED <<group, ctor, store, now, nstates, procs, flows>>

\* GET /all/logout
LogoutAllReq ==
    \E order \in Orders(group), loadFails \in SUBSET Names(group) :
      \E clearFails \in SUBSET (Names(group) \ loadFails) :
        LET form == [redirect_to |-> ""]
        IN \E out \in {logoutAll(group, store, form, order, loadFails, clearFails)} :
           /\ req' = [op |-> "logoutAll", form |-> form,
                      loadFails |-> loadFails, clearFails |-> clearFails]
           /\ store' = out.store
           /\ resp' = out.resp
           /\ effects' = out.effects
           /\ UNCHANGED <<group, ctor, now, nstates, procs, flows>>

\* The session comes to hold, under _token, a value that is not a
\* *oauth2.Token: Session() hands the application the very session the handler
\* uses, and the store decodes whatever was saved under the namespace.
SessionSet(name) ==
    LET ns == group.handlers[name].session_namespace
    IN /\ req' = [op |-> "Session", name |-> name, key |-> "_token"]
       /\ store' = [store EXCEPT ![ns] = Put(store[ns], "_token", Other)]
       /\ resp' = NoResp
       /\ effects' = <<Call("Load", ns, TRUE), Call("Save", ns, TRUE)>>
       /\ UNCHANGED <<group, ctor, now, nstates, procs, flows>>

\* Time passes.
Tick ==
    /\ now < MaxTime
    /\ now' = now + 1
    /\ req' = [op |-> "none"]
    /\ resp' = NoResp
    /\ effects' = <<>>
    /\ UNCHANGED <<group, ctor, store, nstates, procs, flows>>

\* The request URIs that reach a login-required middleware.
RequestURIs == {<<"/", "p">>, <<"/", "p", "?", "q", "=", "1">>}
\* The provider names the application asks the group about.
AskedNames == {"a", "b", "x"}

\* A request reaches a handler wrapped by o.LoginRequired(h) or
\* o.LoginRequiredForcePrompt(h).
GateReq(name) ==
    \E requestURI \in RequestURIs, forcePrompt, loadOK \in BOOLEAN :
        \E out \in {IF forcePrompt
                    THEN LoginRequiredForcePrompt(group.handlers[name], store,
                                                  now, requestURI, loadOK)
                    ELSE LoginRequired(group.handlers[name], store, now,
                                       requestURI, loadOK)} :
           /\ req' = [op |-> "loginRequired", name |-> name,
                      requestURI |-> requestURI, forcePrompt |-> forcePrompt]
           /\ resp' = out.resp
           /\ effects' = out.effects
           /\ UNCHANGED <<group, ctor, store, now, nstates, procs, flows>>

\* A request reaches a handler wrapped by g.LoginRequired(h, login_redirect);
\* login_redirect sends the user to the login URL of a provider it chooses:
\* a for the short URI, b for the long one.
GroupGateReq ==
    \E order \in Orders(group), loadFails \in SUBSET Names(group),
       requestURI \in RequestURIs :
        LET choice == IF Len(requestURI) = 2 THEN "a" ELSE "b"
            login_redirect ==
                [u \in RequestURIs |->
                    GroupLoginURL(group, choice, u, FALSE).url]
        IN \E out \in {GroupLoginRequired(group, store, now, order, loadFails,
                                          requestURI, login_redirect)} :
           /\ req' = [op |-> "groupLoginRequired", requestURI |-> requestURI,
                      loadFails |-> loadFails, choice |-> choice]
           /\ resp' = out.resp
           /\ effects' = out.effects
           /\ UNCHANGED <<group, ctor, store, now, nstates, procs, flows>>

\* The application calls g.Handler, g.LoginURL or g.LogoutURL with a name.
HandlerCall ==
    \E provider_name \in AskedNames :
        /\ group.constructed
        /\ req' = [op |-> "Handler", name |-> provider_name]
        /\ resp' = [kind |-> "return",
                    rv |-> Handler(group, provider_name).rv,
                    exists |-> Handler(group, provider_name).exists]
        /\ effects' = <<>>
        /\ UNCHANGED <<group, ctor, store, now, nstates, procs, flows>>

LoginURLCall ==
    \E provider_name \in AskedNames, redirect_to \in RequestURIs,
       force_prompt \in BOOLEAN :
        /\ group.constructed
        /\ req' = [op |-> "LoginURL", name |-> provider_name,
                   redirect_to |-> redirect_to, force_prompt |-> force_prompt]
        /\ resp' = GroupLoginURL(group, provider_name, redirect_to, force_prompt)
        /\ effects' = <<>>
        /\ UNCHANGED <<group, ctor, store, now, nstates, procs, flows>>

LogoutURLCall ==
    \E provider_name \in AskedNames, redirect_to \in RequestURIs :
        /\ group.constructed
        /\ req' = [op |-> "LogoutURL", name |-> provider_name,
                   redirect_to |-> redirect_to]
        /\ resp' = GroupLogoutURL(group, provider_name, redirect_to)
        /\ effects' = <<>>
        /\ UNCHANGED <<group, ctor, store, now, nstates, procs, flows>>

\* One handler, its session holding whatever the application also put there.
Init == InitWith(<<"a">>)

LoginReq(name) ==
    \E redirect_to \in RedirectTos, force_prompt \in ForcePrompts,
       fail \in {"none", "load", "save"} :
        Login(name, redirect_to, force_prompt, fail)

CbReq(name) ==
    \E state \in FormStates(nstates), code \in Codes, exp \in {Never, At(now)},
       fail \in {"none", "load", "exchange", "save"} :
        Cb(name, state, code, exp, fail)

LogoutReq(name) ==
    \E redirect_to \in RedirectTos, fail \in {"none", "load", "clear"} :
        LogoutStep(name, redirect_to, fail)

Next ==
    \/ \E name \in Names(group) :
        \/ LoginReq(name)
        \/ CbReq(name)
        \/ LogoutReq(name)
        \/ TokenCall(name)
        \/ SessionSet(name)
    \/ Tick

Spec == Init /\ [][Next]_vars

\* A group of two providers, its sessions written by the handlers alone; the
\* handlers' own requests meet no failure, the group's calls meet every
\* session failure.
InitGroup == InitWith(<<"a", "b">>)

GroupLogin(name) ==
    \E force_prompt \in {"false", "true"} : Login(name, "/next", force_prompt, "none")

GroupCb(name) ==
    \E state \in FormStates(nstates), exp \in {Never, At(now)} :
        Cb(name, state, "c1", exp, "none")

GroupLogout(name) == LogoutStep(name, "", "none")

NextGroup ==
    \/ \E name \in Names(group) :
        \/ GroupLogin(name)
        \/ GroupCb(name)
        \/ GroupLogout(name)
    \/ TokensCall
    \/ LogoutAllReq
    \/ Tick

SpecGroup == InitGroup /\ [][NextGroup]_vars

\* One handler behind its login-required middleware: requests pass the
\* middleware while the user's flows go on and time passes.
AppLogin(name) == Login(name, "/next", "false", "none")

AppCb(name) ==
    \E state \in FormStates(nstates), exp \in {Never, At(now)} :
        Cb(name, state, "c1", exp, "none")

NextGate ==
    \/ \E name \in Names(group) :
        \/ AppLogin(name)
        \/ AppCb(name)
        \/ GroupLogout(name)
        \/ GateReq(name)
        \/ SessionSet(name)
    \/ Tick

SpecGate == Init /\ [][NextGate]_vars

\* A group of two providers behind the group's login-required middleware.
NextGroupGate ==
    \/ \E name \in Names(group) :
        \/ AppLogin(name)
        \/ AppCb(name)
        \/ GroupLogout(name)
    \/ GroupGateReq
    \/ Tick

SpecGroupGate == InitGroup /\ [][NextGroupGate]_vars

\* One handler configured before it serves: the application may have called
\* RequestOfflineTokens on it, once, at startup.
InitAccess ==
    \E offline \in BOOLEAN :
        LET g == NewProviderGroup(DemoPrefix, DemoBase, DemoURLs, <<"a">>).group
            o == IF offline THEN RequestOfflineTokens(g.handlers["a"])
                 ELSE g.handlers["a"]
        IN /\ ctor = [session_namespace |-> DemoPrefix,
                      group_base_url |-> DemoBase, providers |-> <<"a">>,
                      called |-> TRUE, err |-> ""]
           /\ group = [g EXCEPT !.handlers = Put(g.handlers, "a", o)]
           /\ store = [ns \in Namespaces(g) |-> Empty]
           /\ now = 0
           /\ nstates = 0
           /\ req = [op |-> "none"]
           /\ resp = NoResp
           /\ effects = <<>>
           /\ procs = NoProcs
           /\ flows = Empty

NextAccess ==
    \/ \E name \in Names(group) :
        \/ GroupLogin(name)
        \/ CbReq(name)
        \/ GroupLogout(name)
    \/ Tick

SpecAccess == InitAccess /\ [][NextAccess]_vars

\* A callback meets a session in any shape: each key missing, of another
\* type, or as a handler writes it.  The session store decodes whatever was
\* saved under the namespace, and Session() gives the application the same
\* session to write.
StateVals == {Nil, Other} \cup {Str(newState(i)) : i \in 0 .. MaxLogins - 1}
RedirectVals == {Nil, Other, Str("/next")}
TokenVals == {Nil, Tok("a:c1", Never)}
\* The session holding the given values, Nil standing for a missing key.
SessionOf(state, redirect_to, tok) ==
    LET vals == [k \in Keys |-> CASE k = "_state" -> state
                                  [] k = "_redirect_to" -> redirect_to
                                  [] OTHER -> tok]
    IN [k \in {x \in Keys : vals[x] # Nil} |-> vals[k]]
Sessions ==
    {SessionOf(s, r, t) : s \in StateVals, r \in RedirectVals, t \in TokenVals}

InitCb ==
    /\ ctor = [session_namespace |-> DemoPrefix, group_base_url |-> DemoBase,
               providers |-> <<"a">>, called |-> TRUE, err |-> ""]
    /\ group = NewProviderGroup(DemoPrefix, DemoBase, DemoURLs, <<"a">>).group
    /\ \E session \in Sessions : store = [ns \in Namespaces(group) |-> session]
    /\ now = 0
    /\ nstates = MaxLogins
    /\ req = [op |-> "none"]
    /\ resp = NoResp
    /\ effects = <<>>
    /\ procs = NoProcs
    /\ flows = Empty

NextCb ==
    \E name \in Names(group) :
        \/ CbReq(name)
        \/ GroupLogout(name)

SpecCb == InitCb /\ [][NextCb]_vars

\* Two providers' sessions written by login, cb and logout requests alone,
\* one after the other, each meeting the failures of its session and
\* exchange calls.
FlowLogin(name) ==
    \E force_prompt \in {"false", "true"}, fail \in {"none", "save"} :
        Login(name, "/next", force_prompt, fail)

FlowCb(name) ==
    \E state \in FormStates(nstates), fail \in {"none", "exchange", "save"} :
        Cb(name, state, "c1", Never, fail)

FlowLogout(name) ==
    \E fail \in {"none", "clear"} : LogoutStep(name, "", fail)

NextFlow ==
    \E name \in Names(group) :
        \/ FlowLogin(name)
        \/ FlowCb(name)
        \/ FlowLogout(name)

SpecFlow == InitGroup /\ [][NextFlow]_vars

\* Construction: NewProviderGroup applied once to a list of providers, a
\* namespace prefix and a base URL; the application then asks the group it
\* got for handlers and URLs by name.
ProviderNames == {"", "a", "b"}
ProviderLists == UNION {[1 .. n -> ProviderNames] : n \in 0 .. MaxProviders}
Prefixes == {"s", ""}
Bases == {<<"/", "g", "/">>, <<"/", "g">>, <<>>}

InitNew ==
    \E prefix \in Prefixes, base \in Bases, providers \in ProviderLists :
        /\ ctor = [session_namespace |-> prefix, group_base_url |-> base,
                   providers |-> providers, called |-> FALSE, err |-> ""]
        /\ group = NoGroup
        /\ store = Empty
        /\ now = 0
        /\ nstates = 0
        /\ req = [op |-> "none"]
        /\ resp = NoResp
        /\ effects = <<>>
        /\ procs = NoProcs
        /\ flows = Empty

Construct ==
    LET out == NewProviderGroup(ctor.session_namespace, ctor.group_base_url,
                                DemoURLs, ctor.providers)
    IN /\ ~ctor.called
       /\ ctor' = [ctor EXCEPT !.called = TRUE, !.err = out.err]
       /\ group' = out.group
       /\ store' = [ns \in Namespaces(out.group) |-> Empty]
       /\ req' = [op |-> "NewProviderGroup"]
       /\ UNCHANGED <<now, nstates, resp, effects, procs, flows>>

NextNew ==
    \/ Construct
    \/ HandlerCall
    \/ LoginURLCall
    \/ LogoutURLCall

SpecNew == InitNew /\ [][NextNew]_vars

\* Two requests of one user served at the same time by the handler of "a":
\* each loads the session once, works on its own copy of session.Values, and
\* saves that copy once; their loads, checks, exchanges and saves interleave.
Requests == {"r1", "r2"}
Idle == [op |-> "none", pc |-> "idle", form |-> [state |-> ""],
         session |-> Empty, resp |-> NoResp]

InitRace ==
    /\ ctor = [session_namespace |-> DemoPrefix, group_base_url |-> DemoBase,
               providers |-> <<"a">>, called |-> TRUE, err |-> ""]
    /\ group = NewProviderGroup(DemoPrefix, DemoBase, DemoURLs, <<"a">>).group
    /\ store = [ns \in Namespaces(group) |-> Empty]
    /\ now = 0
    /\ nstates = 0
    /\ req = [op |-> "none"]
    /\ resp = NoResp
    /\ effects = <<>>
    /\ flows = Empty
    /\ procs = [p \in Requests |-> Idle]

RaceFrame == UNCHANGED <<group, ctor, now, req, resp, effects, flows>>

\* A request arrives: GET /a/login or GET /a/_cb.
StartLogin(p) ==
    \E force_prompt \in {"false", "true"} :
        /\ procs[p].pc \in {"idle", "done"}
        /\ procs' = [procs EXCEPT ![p] =
                        [op |-> "login", pc |-> "load",
                         form |-> [redirect_to |-> "/next",
                                   force_prompt |-> force_prompt],
                         session |-> Empty, resp |-> NoResp]]
        /\ UNCHANGED <<store, nstates>>
        /\ RaceFrame

StartCb(p) ==
    \E state \in FormStates(nstates) :
        /\ procs[p].pc \in {"idle", "done"}
        /\ procs' = [procs EXCEPT ![p] =
                        [op |-> "cb", pc |-> "load",
                         form |-> [state |-> state, code |-> "c1"],
                         session |-> Empty, resp |-> NoResp]]
        /\ UNCHANGED <<store, nstates>>
        /\ RaceFrame

\* o.Session(ctx): the request gets the session as stored at this moment.
RaceLoad(p) ==
    /\ procs[p].pc = "load"
    /\ procs' = [procs EXCEPT ![p].session = store[NsOf("a")],
                              ![p].pc = "check"]
    /\ UNCHANGED <<store, nstates>>
    /\ RaceFrame

\* login, lines 147-164: short-circuit, or a new state set in the copy.
RaceLoginDecide(p) ==
    LET o == group.handlers["a"]
        me == procs[p]
        redirect_to == IF me.form.redirect_to = "" THEN o.urls.DefaultLoginURL
                       ELSE me.form.redirect_to
        parsed == ParseBool(me.form.force_prompt)
        force_prompt == IF parsed.err THEN FALSE ELSE parsed.val
    IN /\ me.op = "login"
       /\ me.pc = "check"
       /\ IF shortCircuit(force_prompt, me.session, now)
          THEN /\ procs' = [procs EXCEPT ![p].pc = "done",
                                         ![p].resp = Redirect(redirect_to)]
               /\ UNCHANGED nstates
          ELSE /\ nstates < MaxLogins
               /\ nstates' = nstates + 1
               /\ procs' = [procs EXCEPT
                    ![p].pc = "save",
                    ![p].session =
                        Put(Put(me.session, "_state", Str(newState(nstates))),
                            "_redirect_to", Str(redirect_to))]
       /\ UNCHANGED store
       /\ RaceFrame

\* cb, lines 192-211: the three checks, against the request's copy.
RaceCbCheck(p) ==
    LET me == procs[p]
        failed == cbCheck(me.session, me.form.state)
    IN /\ me.op = "cb"
       /\ me.pc = "check"
       /\ procs' = IF failed # ""
                   THEN [procs EXCEPT ![p].pc = "done",
                                      ![p].resp = BadRequest(failed)]
                   ELSE [procs EXCEPT ![p].pc = "exchange"]
       /\ UNCHANGED <<store, nstates>>
       /\ RaceFrame

\* cb, lines 220-226: the exchange, and _token set in the copy.
RaceExchange(p) ==
    LET me == procs[p]
    IN /\ me.pc = "exchange"
       /\ procs' = [procs EXCEPT
            ![p].pc = "save",
            ![p].session = Put(me.session, "_token",
                               Exchange("a", me.form.code, Never))]
       /\ UNCHANGED <<store, nstates>>
       /\ RaceFrame

\* session.Save: the request's copy replaces the stored session; then the
\* redirect is written.
RaceSave(p) ==
    LET me == procs[p]
    IN /\ me.pc = "save"
       /\ store' = [store EXCEPT ![NsOf("a")] = me.session]
       /\ procs' = [procs EXCEPT
            ![p].pc = "done",
            ![p].resp = IF me.op = "cb"
                        THEN Redirect(me.session["_redirect_to"].v)
                        ELSE [kind |-> "authorize", provider |-> "a",
                              state |-> me.session["_state"].v]]
       /\ UNCHANGED nstates
       /\ RaceFrame

NextRace ==
    \E p \in Requests :
        \/ StartLogin(p)
        \/ StartCb(p)
        \/ RaceLoad(p)
        \/ RaceLoginDecide(p)
        \/ RaceCbCheck(p)
        \/ RaceExchange(p)
        \/ RaceSave(p)

SpecRace == InitRace /\ [][NextRace]_vars

----------------------------------------------------------------------------
\* Properties of the handler (checked under Spec)

Called(effs, what) == \E i \in DOMAIN effs : effs[i].call = what
Loaded(effs) == effs # <<>> /\ effs[1].call = "Load" /\ effs[1].ok
NoFailure(effs) == \A i \in DOMAIN effs : effs[i].ok
\* A credential that exists, has the credential type and has not expired.
Present(session, clock) ==
    /\ "_token" \in DOMAIN session
    /\ session["_token"].type = "token"
    /\ ~(session["_token"].expiry.set /\ session["_token"].expiry.at < clock)

\* C1: a cb whose state parameter differs from the session's stored _state is
\* answered with the bad-request error "csrf detected"; and no cb whose state
\* is not the stored _state (one stored or none) invokes the exchange or
\* changes the stored session, _token included.
C1_CsrfRejected ==
    [][req'.op = "cb" =>
        LET before == store[NsOf(req'.name)]
            supplied == Str(req'.form.state)
        IN /\ (Loaded(effects') /\ Has(before, "_state")
                  /\ before["_state"] # supplied)
                => resp' = BadRequest("csrf detected")
           /\ Get(before, "_state") # supplied
                => /\ resp'.kind = "error"
                   /\ ~Called(effects', "Exchange")
                   /\ ~Called(effects', "Save")
                   /\ store' = store]_vars

\* C1 witness: a logged-in session has just rejected a callback as CSRF and
\* still holds its credential.
C1_Witness ==
    /\ req.op = "cb"
    /\ resp = BadRequest("csrf detected")
    /\ Present(store[NsOf(req.name)], now)

\* C2: a cb whose state equals the stored _state, and none of whose
\* collaborator calls fails, redirects to the _redirect_to stored by the login
\* that issued that state, and leaves a session for which LoggedIn is true.
C2_CallbackCompletes ==
    [][(/\ req'.op = "cb"
        /\ Get(store[NsOf(req'.name)], "_state") = Str(req'.form.state)
        /\ NoFailure(effects'))
        => /\ req'.form.state \in DOMAIN flows
           /\ flows[req'.form.state].name = req'.name
           /\ resp' = Redirect(flows[req'.form.state].redirect_to)
           /\ Called(effects', "Exchange")
           /\ LoggedIn(group.handlers[req'.name], store', now', TRUE).loggedIn
           /\ Present(store'[NsOf(req'.name)], now')]_vars

\* C2 witness: a callback was redirected to "/next" although another login of
\* the same session had stored "/".
C2_Witness ==
    /\ req.op = "cb"
    /\ resp = Redirect("/next")
    /\ Present(store[NsOf(req.name)], now)
    /\ \E s \in DOMAIN flows : flows[s].redirect_to = "/"

\* C3: a login whose session loads short-circuits exactly when force_prompt
\* is false and the session holds a valid token.  Short-circuiting, it
\* redirects to redirect_to (DefaultLoginURL when empty), saves nothing and
\* generates no state; otherwise it does not redirect there, and writes a new
\* _state, with redirect_to, which a successful save persists.
C3_LoginShortCircuit ==
    [][(req'.op = "login" /\ Loaded(effects')) =>
        LET o == group.handlers[req'.name]
            before == store[o.session_namespace]
            after == store'[o.session_namespace]
            forcePrompt == req'.form.force_prompt = "true"
            target == IF req'.form.redirect_to = "" THEN o.urls.DefaultLoginURL
                      ELSE req'.form.redirect_to
        IN IF ~forcePrompt /\ Present(before, now)
           THEN /\ resp' = Redirect(target)
                /\ effects' = <<Call("Load", o.session_namespace, TRUE)>>
                /\ store' = store
                /\ nstates' = nstates
           ELSE /\ resp'.kind # "redirect"
                /\ Called(effects', "newState")
                /\ Called(effects', "Save")
                /\ nstates' = nstates + 1
                /\ NoFailure(effects') =>
                    /\ after["_state"] = Str(newState(nstates))
                    /\ after["_state"] # Get(before, "_state")
                    /\ after["_redirect_to"] = Str(target)
                    /\ resp'.kind = "authorize"
                    /\ resp'.state = newState(nstates)
                /\ ~NoFailure(effects') => store' = store]_vars

\* C3 witness: a login without parameters was answered at once with a redirect
\* to the default login URL, the session holding a valid token.
C3_Witness ==
    /\ req.op = "login"
    /\ req.form.redirect_to = ""
    /\ resp = Redirect("/")
    /\ Present(store[NsOf(req.name)], now)

\* C4: a logout none of whose session calls fails leaves the namespace without
\* any value (no _token, no _state, no _redirect_to), so that LoggedIn is
\* false, and redirects to redirect_to (DefaultLogoutURL when empty), whatever
\* the session held before.
C4_LogoutClears ==
    [][(req'.op = "logout" /\ NoFailure(effects')) =>
        LET o == group.handlers[req'.name]
            after == store'[o.session_namespace]
        IN /\ after = Empty
           /\ \A k \in Keys : ~Has(after, k)
           /\ ~LoggedIn(o, store', now', TRUE).loggedIn
           /\ resp' = Redirect(IF req'.form.redirect_to = ""
                               THEN o.urls.DefaultLogoutURL
                               ELSE req'.form.redirect_to)]_vars

\* C4 witness: a session that had started a flow is empty after a logout that
\* was redirected to the default logout URL.
C4_Witness ==
    /\ req.op = "logout"
    /\ resp = Redirect("/bye")
    /\ store[NsOf(req.name)] = Empty
    /\ flows # Empty

\* C10: Token and LoggedIn report a token exactly when _token exists, is a
\* credential and has not expired; they only load the session, and the stored
\* session is the same after the call, a stale _token included.
C10_TokenIsPureRead ==
    [][req'.op = "Token" =>
        LET ns == NsOf(req'.name)
        IN /\ store' = store
           /\ effects' = <<Call("Load", ns, ~resp'.err)>>
           /\ ~resp'.err =>
                /\ (resp'.token # Nil) = Present(store[ns], now)
                /\ resp'.token # Nil => resp'.token = store[ns]["_token"]
                /\ resp'.loggedIn = Present(store[ns], now)
           /\ resp'.err => resp'.token = Nil /\ ~resp'.loggedIn]_vars

\* C10 witness: LoggedIn has just answered false for a session whose stored
\* credential has expired, and the credential is still stored.
C10_Witness ==
    /\ req.op = "Token"
    /\ ~resp.err
    /\ ~resp.loggedIn
    /\ Has(store[NsOf(req.name)], "_token")
    /\ store[NsOf(req.name)]["_token"].type = "token"

----------------------------------------------------------------------------
\* Properties of the group (checked under SpecGroup)

\* The providers for which some login flow has been completed by a callback.
CompletedNames == {flows[s].name : s \in {x \in DOMAIN flows : flows[x].done}}
\* The providers whose namespace holds a present credential.
Holding(st, clock) == {n \in Names(group) : Present(st[NsOf(n)], clock)}
Visited(effs, what) == {effs[i].ns : i \in {j \in DOMAIN effs : effs[j].call = what}}
Range(seq) == {seq[i] : i \in DOMAIN seq}

\* C6: Tokens, when no session lookup fails, returns exactly the providers
\* holding a present credential, each with the credential its own callback
\* stored, and never a provider that completed no flow: with only a's flow
\* completed and a's credential held, the mapping is {a: credential} without
\* an entry for b.  After a logoutAll that did not fail, Tokens returns the
\* empty mapping and the group's LoggedIn is false.
C6_TokensFollowFlows ==
    [][/\ (req'.op = "Tokens" /\ req'.loadFails = {}) =>
            /\ DOMAIN resp'.tokens = Holding(store, now)
            /\ DOMAIN resp'.tokens \subseteq CompletedNames
            /\ \A n \in DOMAIN resp'.tokens :
                /\ resp'.tokens[n] = store[NsOf(n)]["_token"]
                /\ \E code \in Codes : resp'.tokens[n].v = n \o ":" \o code
            /\ (CompletedNames = {"a"} /\ "a" \in Holding(store, now))
                => resp'.tokens = [n \in {"a"} |-> store[NsOf("a")]["_token"]]
            /\ resp'.loggedIn = (Holding(store, now) # {})
       /\ (req'.op = "logoutAll" /\ resp'.kind = "redirect") =>
            \A order \in Orders(group) :
                /\ Tokens(group, store', now', order, {}).rv = Empty
                /\ ~GroupLoggedIn(group, store', now', order, {}).loggedIn]_vars

\* C6 witness: only a has completed a flow, b's flow is pending, and Tokens
\* has just returned a mapping with a alone.
C6_Witness ==
    /\ req.op = "Tokens"
    /\ req.loadFails = {}
    /\ CompletedNames = {"a"}
    /\ Has(store[NsOf("b")], "_state")
    /\ DOMAIN resp.tokens = {"a"}

\* C7: Tokens looks every handler's session up, failed lookups or not; the
\* mapping holds exactly the providers whose lookup succeeded and that hold a
\* present credential; the error names exactly the providers whose lookup
\* failed, so it is non-empty iff some lookup failed.
C7_TokensPartial ==
    [][req'.op = "Tokens" =>
        /\ Len(effects') = Cardinality(Names(group))
        /\ Visited(effects', "Load") = Namespaces(group)
        /\ DOMAIN resp'.tokens = Holding(store, now) \ req'.loadFails
        /\ \A n \in DOMAIN resp'.tokens :
            resp'.tokens[n] = store[NsOf(n)]["_token"]
        /\ Range(resp'.errs) = req'.loadFails
        /\ (resp'.errs # <<>>) = (req'.loadFails # {})]_vars

\* C7 witness: the first lookup, b's, failed, and Tokens still returned a's
\* token together with the error.
C7_Witness ==
    /\ req.op = "Tokens"
    /\ effects[1] = Call("Load", NsOf("b"), FALSE)
    /\ DOMAIN resp.tokens = {"a"}
    /\ resp.errs = <<"b">>

\* C8: logoutAll attempts every handler's session whatever fails: a provider
\* whose Session and Clear succeed has its namespace emptied, one whose call
\* fails keeps it, and the error, answered iff some call failed, names every
\* failed provider.
C8_LogoutAllBestEffort ==
    [][req'.op = "logoutAll" =>
        LET failed == req'.loadFails \cup req'.clearFails
        IN /\ Visited(effects', "Load") = Namespaces(group)
           /\ Visited(effects', "Clear")
                = {NsOf(n) : n \in Names(group) \ req'.loadFails}
           /\ \A n \in Names(group) \ failed : store'[NsOf(n)] = Empty
           /\ \A n \in failed : store'[NsOf(n)] = store[NsOf(n)]
           /\ (resp'.kind = "error") = (failed # {})
           /\ resp'.kind = "error" => Range(resp'.failed) = failed
           /\ resp'.kind # "error" => resp'.kind = "redirect"]_vars

\* C8 witness: clearing a, attempted first, failed and a is still logged in,
\* while b, which had completed a flow, was cleared all the same.
C8_Witness ==
    /\ req.op = "logoutAll"
    /\ Len(effects) > 1
    /\ effects[2] = Call("Clear", NsOf("a"), FALSE)
    /\ resp.kind = "error"
    /\ Present(store[NsOf("a")], now)
    /\ store[NsOf("b")] = Empty
    /\ "b" \in CompletedNames

----------------------------------------------------------------------------
\* Properties of construction (checked under SpecNew)

----------------------------------------------------------------------------
\* Properties of concurrent requests (checked under SpecRace)

StoresCredential(p) ==
    procs[p].op = "cb" /\ procs[p].pc = "save" /\ procs'[p].pc = "done"

\* C5 as claimed: whenever a callback stores its credential, the state it
\* carries is still the session's stored _state - a callback whose state a
\* newer login has overwritten meanwhile never succeeds.
C5_StaleCallbackNeverStores ==
    [][\A p \in Requests :
        StoresCredential(p)
            => Get(store[NsOf("a")], "_state") = Str(procs[p].form.state)]_vars

\* C5 amended: a callback is checked against the _state it loaded.  One that
\* loaded a _state other than the state it carries - it loaded after the
\* newer login's save - gets no further than the check, ends with a
\* bad-request error, invokes no exchange and saves nothing.
C5_LoadedStateDecides ==
    \A p \in Requests :
        (/\ procs[p].op = "cb"
         /\ procs[p].pc \notin {"idle", "load"}
         /\ Get(procs[p].session, "_state") # Str(procs[p].form.state))
            => /\ procs[p].pc \in {"check", "done"}
               /\ procs[p].pc = "done" =>
                    /\ procs[p].resp.kind = "error"
                    /\ Has(procs[p].session, "_state")
                        => procs[p].resp = BadRequest("csrf detected")

\* C5 witness: a callback carrying the state of the first login was loaded
\* after a second login had saved its own, and was rejected as CSRF.
C5_Witness ==
    \E p \in Requests :
        /\ procs[p].op = "cb"
        /\ procs[p].pc = "done"
        /\ procs[p].form.state = newState(0)
        /\ Get(procs[p].session, "_state") = Str(newState(1))
        /\ procs[p].resp = BadRequest("csrf detected")

----------------------------------------------------------------------------
\* Properties of the login-required middleware (checked under SpecGroupGate
\* and SpecGate)

\* The login URLs the middleware is expected to redirect to, written out: the
\* demo group serves provider n under /g/n, and the request URI travels
\* percent-encoded in redirect_to.
EncodedURI(requestURI) == IF Len(requestURI) = 2 THEN "%2Fp" ELSE "%2Fp%3Fq%3D1"
ExpectedLoginURL(name, requestURI, forcePrompt) ==
    "/g/" \o name \o "/login?force_prompt="
        \o (IF forcePrompt THEN "true" ELSE "false")
        \o "&redirect_to=" \o EncodedURI(requestURI)

\* C11 as claimed: the group's gate redirects to login_redirect(requestURI),
\* without invoking next, whenever the token mapping is empty, and invokes
\* next whenever the mapping is non-empty, a failed lookup of another provider
\* notwithstanding.
C11_GateFollowsMapping ==
    [][req'.op = "groupLoginRequired" =>
        LET mapping == Holding(store, now) \ req'.loadFails
        IN IF mapping = {}
           THEN resp' = Redirect(ExpectedLoginURL(req'.choice, req'.requestURI,
                                                  FALSE))
           ELSE resp'.kind = "next"]_vars

\* C11 amended: the gate first surfaces the error of Tokens: when any
\* provider's lookup fails it answers with the combined error, neither
\* invoking next nor redirecting, whatever the mapping holds.  When no lookup
\* fails it redirects to login_redirect(requestURI) without invoking next if
\* the mapping is empty, and invokes next if it is not.  It looks every
\* handler's session up and changes none.
C11_GateSurfacesErrors ==
    [][req'.op = "groupLoginRequired" =>
        LET mapping == Holding(store, now) \ req'.loadFails
        IN /\ store' = store
           /\ Visited(effects', "Load") = Namespaces(group)
           /\ ~Called(effects', "Save")
           /\ IF req'.loadFails # {}
              THEN /\ resp'.kind = "error"
                   /\ resp'.class = "internal"
                   /\ Range(resp'.failed) = req'.loadFails
              ELSE IF mapping = {}
              THEN resp' = Redirect(ExpectedLoginURL(req'.choice,
                                                     req'.requestURI, FALSE))
              ELSE resp'.kind = "next"]_vars

\* C11 witness: a holds a credential, b's lookup failed, and the gate answered
\* with the error.
C11_Witness ==
    /\ req.op = "groupLoginRequired"
    /\ req.loadFails = {"b"}
    /\ Present(store[NsOf("a")], now)
    /\ resp.kind = "error"

\* C12: the handler's middleware never invokes next for a request whose
\* session holds no valid token; when the session loads, it redirects such a
\* request to this handler's login URL, carrying the request URI as
\* redirect_to and the call site's forcePrompt, and it invokes next for every
\* request whose session holds a valid token.  It only loads the session.
C12_HandlerGate ==
    [][req'.op = "loginRequired" =>
        LET ns == NsOf(req'.name)
        IN /\ store' = store
           /\ effects' = <<Call("Load", ns, resp'.kind # "error")>>
           /\ ~Present(store[ns], now) => resp'.kind # "next"
           /\ Loaded(effects') =>
                IF Present(store[ns], now)
                THEN resp'.kind = "next"
                ELSE resp' = Redirect(ExpectedLoginURL(req'.name,
                                          req'.requestURI, req'.forcePrompt))]_vars

\* C12 witness: a request behind LoginRequiredForcePrompt, its session
\* holding an expired credential, was redirected to the login URL with
\* force_prompt=true.
C12_Witness ==
    /\ req.op = "loginRequired"
    /\ req.forcePrompt
    /\ Has(store[NsOf(req.name)], "_token")
    /\ store[NsOf(req.name)]["_token"].type = "token"
    /\ resp = Redirect("/g/a/login?force_prompt=true&redirect_to=%2Fp%3Fq%3D1")

----------------------------------------------------------------------------
\* Properties of the group's passthroughs (checked under SpecNew)

\* C14: Handler, LoginURL and LogoutURL return the named handler's result
\* when the name is a configured provider, and report that it is not found,
\* without failing, when it is not.
C14_PassthroughsReportNotFound ==
    req.op \in {"Handler", "LoginURL", "LogoutURL"} =>
        /\ resp.kind = "return"
        /\ req.op = "Handler" =>
            /\ resp.exists = (req.name \in DOMAIN group.handlers)
            /\ resp.exists => resp.rv = group.handlers[req.name]
        /\ (req.op = "LoginURL" /\ req.name \in DOMAIN group.handlers) =>
            resp.url = LoginURL(group.handlers[req.name], req.redirect_to,
                                req.force_prompt)
        /\ (req.op = "LogoutURL" /\ req.name \in DOMAIN group.handlers) =>
            resp.url = LogoutURL(group.handlers[req.name], req.redirect_to)

----------------------------------------------------------------------------
\* Properties of the access type (checked under SpecAccess)

AccessTypeOf(o) == IF o.accessOffline THEN "offline" ELSE "online"
Exchanges(effs) == {effs[i] : i \in {j \in DOMAIN effs : effs[j].call = "Exchange"}}

\* C13: a login that sends the user to the provider asks for offline access
\* iff RequestOfflineTokens was called on the handler, and for online access
\* otherwise; every exchange a cb invokes passes that same option, so for
\* every flow a cb completes the option of the exchange equals the option of
\* the login that initiated it.
C13_SameAccessType ==
    [][/\ (req'.op = "login" /\ resp'.kind = "authorize") =>
            resp'.accessType = AccessTypeOf(group.handlers[req'.name])
       /\ req'.op = "cb" =>
            /\ \A x \in Exchanges(effects') :
                x.accessType = AccessTypeOf(group.handlers[req'.name])
            /\ resp'.kind = "redirect" =>
                /\ Exchanges(effects') # {}
                /\ \A x \in Exchanges(effects') :
                    x.accessType = flows[req'.form.state].accessType]_vars

\* C13 witness: a flow initiated with offline access has been completed by a
\* callback whose exchange asked for offline access.
C13_Witness ==
    /\ req.op = "cb"
    /\ resp.kind = "redirect"
    /\ flows[req.form.state].done
    /\ flows[req.form.state].accessType = "offline"
    /\ \E x \in Exchanges(effects) : x.accessType = "offline" /\ x.ok

----------------------------------------------------------------------------
\* Properties of the session's life cycle (checked under Spec)

Completes(r, a) == r.op = "cb" /\ a.kind = "redirect"

\* C16 as claimed: once a cb succeeds, _state and _redirect_to are consumed:
\* they are no longer in the session, and a cb carrying the state of a flow
\* already completed is rejected.
C16_StateConsumedByCb ==
    [][/\ Completes(req', resp') =>
            /\ ~Has(store'[NsOf(req'.name)], "_state")
            /\ ~Has(store'[NsOf(req'.name)], "_redirect_to")
       /\ (/\ req'.op = "cb"
           /\ req'.form.state \in DOMAIN flows
           /\ flows[req'.form.state].done) => resp'.kind = "error"]_vars

\* C16 amended: _state and _redirect_to are written by login and stay in the
\* session after a cb succeeds, as they were; only a logout removes them, and
\* only a login that goes to the provider replaces them.  A second cb
\* carrying the state of a completed flow, that state still being the stored
\* one, passes the checks again: it invokes the exchange and, no call
\* failing, redirects and stores the new credential.
C16_StateOutlivesCb ==
    [][req'.op \in {"login", "cb", "logout", "Token", "Session"} =>
       LET ns == NsOf(req'.name)
       IN /\ Completes(req', resp') =>
               /\ Get(store'[ns], "_state") = Str(req'.form.state)
               /\ Get(store'[ns], "_state") = Get(store[ns], "_state")
               /\ Get(store'[ns], "_redirect_to") = Get(store[ns], "_redirect_to")
               /\ cbCheck(store'[ns], req'.form.state) = ""
          /\ (/\ req'.op = "cb"
              /\ req'.form.state \in DOMAIN flows
              /\ flows[req'.form.state].done
              /\ Get(store[ns], "_state") = Str(req'.form.state)
              /\ Loaded(effects'))
                => /\ Called(effects', "Exchange")
                   /\ NoFailure(effects') => Completes(req', resp')
          /\ \A k \in {"_state", "_redirect_to"} :
                /\ (Has(store[ns], k) /\ ~Has(store'[ns], k))
                      => req'.op = "logout"
                /\ (Has(store[ns], k) /\ Has(store'[ns], k)
                        /\ Get(store'[ns], k) # Get(store[ns], k))
                      => req'.op = "login"]_vars

\* C16 witness: a second callback of the only flow begun has completed it
\* again after the credential of the first had expired; the session holds the
\* new credential together with the flow's _state and _redirect_to.
C16_Witness ==
    /\ Completes(req, resp)
    /\ nstates = 1
    /\ now = MaxTime
    /\ store[NsOf(req.name)]["_state"] = Str(req.form.state)
    /\ Has(store[NsOf(req.name)], "_redirect_to")
    /\ store[NsOf(req.name)]["_token"] = Tok("a:c1", At(now))

\* C17 as claimed: a login with force_prompt=true on a session that is logged
\* in, none of its calls failing, leaves the session without _token, so that
\* LoggedIn is false until a cb succeeds.
C17_ForcePromptLogsOut ==
    [][(/\ req'.op = "login"
        /\ req'.form.force_prompt = "true"
        /\ Present(store[NsOf(req'.name)], now)
        /\ NoFailure(effects'))
        => /\ ~Has(store'[NsOf(req'.name)], "_token")
           /\ ~LoggedIn(group.handlers[req'.name], store', now', TRUE).loggedIn]_vars

\* C17 amended: a login with force_prompt=true on a session that is logged in
\* does not short-circuit: it writes a new _state and _redirect_to and sends
\* the user to the provider with approval-force, and it leaves _token as it
\* was, so that Token and LoggedIn go on reporting the user logged in.
C17_ForcePromptKeepsToken ==
    [][(/\ req'.op = "login"
        /\ req'.form.force_prompt = "true"
        /\ Present(store[NsOf(req'.name)], now)
        /\ NoFailure(effects'))
        => LET o == group.handlers[req'.name]
               ns == o.session_namespace
           IN /\ resp'.kind = "authorize"
              /\ resp'.approvalForce
              /\ Get(store'[ns], "_state") = Str(resp'.state)
              /\ Has(store'[ns], "_redirect_to")
              /\ Get(store'[ns], "_token") = Get(store[ns], "_token")
              /\ LoggedIn(o, store', now', TRUE).loggedIn
              /\ Token(o, store', now', TRUE).token = Get(store[ns], "_token")]_vars

\* C17 witness: after a login with force_prompt=true was sent to the provider,
\* the session holds the pending _state and still a valid credential.
C17_Witness ==
    /\ req.op = "login"
    /\ req.form.force_prompt = "true"
    /\ resp.kind = "authorize"
    /\ resp.approvalForce
    /\ Present(store[NsOf(req.name)], now)

----------------------------------------------------------------------------
\* Properties of cb's checks (checked under SpecCb)

IsString(session, k) == Has(session, k) /\ session[k].type = "string"
Rejected(a) == a.kind = "error" /\ a.class = "bad request"

\* C18: a cb whose session loads checks, in this order: _state missing or not
\* a string is answered "invalid session storage state"; else _redirect_to
\* missing or not a string is answered "invalid redirect_to"; else a state
\* parameter other than _state is answered "csrf detected"; each is a
\* bad-request error, and no other cb is.  A rejected cb invokes no exchange,
\* saves nothing, changes nothing stored and emits no redirect; a cb on an
\* empty session - no login yet, or after logout - is always answered with
\* an error.
C18_ChecksInOrder ==
    [][req'.op = "cb" =>
        LET session == store[NsOf(req'.name)]
        IN /\ Loaded(effects') =>
                IF ~IsString(session, "_state")
                THEN resp' = BadRequest("invalid session storage state")
                ELSE IF ~IsString(session, "_redirect_to")
                THEN resp' = BadRequest("invalid redirect_to")
                ELSE IF session["_state"].v # req'.form.state
                THEN resp' = BadRequest("csrf detected")
                ELSE ~Rejected(resp')
           /\ Rejected(resp') =>
                /\ ~Called(effects', "Exchange")
                /\ ~Called(effects', "Save")
                /\ store' = store
           /\ session = Empty =>
                /\ resp'.kind = "error"
                /\ ~Called(effects', "Exchange")
                /\ store' = store]_vars

\* C18 witness: a session with neither a usable _state nor a usable
\* _redirect_to was answered with the _state error, the first check's.
C18_Witness ==
    /\ req.op = "cb"
    /\ resp = BadRequest("invalid session storage state")
    /\ Get(store[NsOf(req.name)], "_state") = Other
    /\ ~Has(store[NsOf(req.name)], "_redirect_to")
    /\ Has(store[NsOf(req.name)], "_token")

----------------------------------------------------------------------------
\* Properties of the namespaces of a group (checked under SpecGroup)

\* C19: login, cb and logout on one provider's handler call the session store
\* for that provider's namespace only and leave every other provider's
\* namespace, a different one, as it was; so logging out of one provider
\* leaves the others logged in or not as they were, and every _token stored
\* under a provider's namespace is a credential of that provider's own
\* exchange.
C19_NamespaceIsolation ==
    [][req'.op \in {"login", "cb", "logout"} =>
        LET mine == NsOf(req'.name)
        IN /\ \A i \in DOMAIN effects' : effects'[i].ns = mine
           /\ \A n \in Names(group) \ {req'.name} :
                /\ NsOf(n) # mine
                /\ store'[NsOf(n)] = store[NsOf(n)]
                /\ LoggedIn(group.handlers[n], store', now', TRUE).loggedIn
                    = LoggedIn(group.handlers[n], store, now, TRUE).loggedIn
           /\ \A n \in Names(group) :
                Has(store'[NsOf(n)], "_token") =>
                    \E code \in Codes :
                        store'[NsOf(n)]["_token"].v = n \o ":" \o code]_vars

\* C19 witness: the user, logged in with both providers, has logged out of a
\* and is still logged in with b.
C19_Witness ==
    /\ req.op = "logout"
    /\ req.name = "a"
    /\ "a" \in CompletedNames
    /\ store[NsOf("a")] = Empty
    /\ Present(store[NsOf("b")], now)
    /\ store[NsOf("b")]["_token"].v = "b:c1"

----------------------------------------------------------------------------
\* Properties of login's order of effects (checked under Spec)

\* C20: a login redirects to the provider's authorization endpoint with state
\* S only after it has saved, successfully, the session holding _state = S
\* and the request's redirect target as _redirect_to.  A login whose session
\* load or save fails is answered with the session error, redirects nowhere
\* and leaves the stored session as it was; and a cb carrying a state that no
\* login persisted is never completed.
C20_SaveBeforeRedirect ==
    [][/\ req'.op = "login" =>
            LET o == group.handlers[req'.name]
                ns == o.session_namespace
                target == IF req'.form.redirect_to = ""
                          THEN o.urls.DefaultLoginURL
                          ELSE req'.form.redirect_to
            IN /\ resp'.kind = "authorize" =>
                    /\ effects' = <<Call("Load", ns, TRUE),
                                    Call("newState", ns, TRUE),
                                    Call("Save", ns, TRUE)>>
                    /\ Get(store'[ns], "_state") = Str(resp'.state)
                    /\ Get(store'[ns], "_redirect_to") = Str(target)
                    /\ resp'.state \in DOMAIN flows'
               /\ ~NoFailure(effects') =>
                    /\ resp' = SessionError
                    /\ store' = store
                    /\ flows' = flows
       /\ (req'.op = "cb" /\ req'.form.state \notin DOMAIN flows) =>
            /\ resp'.kind = "error"
            /\ ~Called(effects', "Exchange")]_vars

\* C20 witness: a login generated a state, its save failed, and it was
\* answered with the session error; the state was never persisted.
C20_Witness ==
    /\ req.op = "login"
    /\ resp = SessionError
    /\ Len(effects) = 3
    /\ effects[3] = Call("Save", NsOf(req.name), FALSE)
    /\ nstates = 1
    /\ flows = Empty
    /\ ~Has(store[NsOf(req.name)], "_state")

----------------------------------------------------------------------------
\* Properties of a failed exchange (checked under Spec)

FailedExchanges(effs) == {i \in DOMAIN effs : effs[i].call = "Exchange" /\ ~effs[i].ok}

\* C21: a cb whose exchange fails - the checks having passed - is answered
\* with the exchange's error, invokes the exchange once and nothing after it,
\* saves nothing, and leaves the stored session as it was: no _token is
\* written, and a previous _token, _state and _redirect_to stay.  It emits no
\* redirect.
C21_ExchangeFailureSurfaced ==
    [][(req'.op = "cb" /\ FailedExchanges(effects') # {}) =>
        LET ns == NsOf(req'.name)
        IN /\ cbCheck(store[ns], req'.form.state) = ""
           /\ resp' = ExchangeError
           /\ effects' = <<Call("Load", ns, TRUE),
                           [call |-> "Exchange", ns |-> ns, ok |-> FALSE,
                            code |-> req'.form.code,
                            accessType |-> "online"]>>
           /\ ~Called(effects', "Save")
           /\ store' = store
           /\ \A k \in Keys : Get(store'[ns], k) = Get(store[ns], k)
           /\ flows' = flows]_vars

\* C21 witness: the exchange of a second callback failed; the session still
\* holds the credential of the first, with _state and _redirect_to.
C21_Witness ==
    /\ req.op = "cb"
    /\ resp = ExchangeError
    /\ FailedExchanges(effects) # {}
    /\ Present(store[NsOf(req.name)], now)
    /\ Get(store[NsOf(req.name)], "_state") = Str(req.form.state)
    /\ Has(store[NsOf(req.name)], "_redirect_to")

----------------------------------------------------------------------------
\* Properties of the sessions login, cb and logout produce (checked under
\* SpecFlow)

\* C22: after every login, cb and logout, in every namespace, _state is
\* present iff _redirect_to is; a present _token is a credential of that
\* namespace's provider, and that provider has completed a flow; and _token
\* comes to hold a value only in a cb on that namespace's handler whose state
\* parameter was the stored _state and which was answered with the redirect.
C22_SessionWellFormed ==
    [][\A n \in Names(group) :
        LET before == store[NsOf(n)]
            after == store'[NsOf(n)]
        IN /\ Has(after, "_state") <=> Has(after, "_redirect_to")
           /\ Has(after, "_token") =>
                /\ after["_token"].type = "token"
                /\ \E code \in Codes : after["_token"].v = n \o ":" \o code
                /\ n \in CompletedNames'
           /\ (Has(after, "_token")
                  /\ Get(after, "_token") # Get(before, "_token")) =>
                /\ req'.op = "cb"
                /\ req'.name = n
                /\ Get(before, "_state") = Str(req'.form.state)
                /\ Has(before, "_redirect_to")
                /\ resp' = Redirect(before["_redirect_to"].v)
                /\ Called(effects', "Exchange")
                /\ NoFailure(effects')
           /\ (~Has(after, "_state") /\ Has(before, "_state")) =>
                (req'.op = "logout" /\ req'.name = n /\ after = Empty)]_vars

\* C22 witness: a callback on b's handler carrying the state of a's login was
\* rejected; b's session holds its own pending _state and _redirect_to and no
\* _token, while a's holds the credential of a's completed flow.
C22_Witness ==
    /\ req.op = "cb"
    /\ req.name = "b"
    /\ req.form.state \in DOMAIN flows
    /\ flows[req.form.state].name = "a"
    /\ resp = BadRequest("csrf detected")
    /\ Has(store[NsOf("b")], "_state")
    /\ Has(store[NsOf("b")], "_redirect_to")
    /\ ~Has(store[NsOf("b")], "_token")
    /\ Has(store[NsOf("a")], "_token")

====
